---- MODULE Spec2Model ----
(***************************************************************************)
(* Event layer of pulse (pulse/events.py) and the subscriber bookkeeping   *)
(* of BlueprintUIModel (pulse/views/core.py).                              *)
(*                                                                         *)
(* The Maya scene is a set of named 'network' nodes.  A node that is       *)
(* deleted and created again under the same name is a different node (a    *)
(* new MObject): a node is the pair of its name and the number of the      *)
(* creation that made it.  Maya's callback registry is the set of the      *)
(* MMessage callbacks currently installed; evalDeferred is a queue that    *)
(* the host empties on its idle ticks.                                     *)
(*                                                                         *)
(* The code is Python 2 (nodes.py uses basestring and cmp), so dict.keys() *)
(* is a list copy and deleting while iterating over it is safe.            *)
(***************************************************************************)
EXTENDS Integers, Sequences, FiniteSets, TLC

\* ---- bounds ----
MaxGen == 2          \* how often a node name can be created
MaxDeferred == 1     \* pending evalDeferred entries
MaxCommands == 3     \* button commands run
MaxShows == 3        \* createAndShow calls per window class
MaxLoads == 4        \* loadBuiltinActions calls

Names == {"A", "B"}          \* node names in the scene
Objs == {"o1", "o2"}         \* objects using BlueprintEventsMixin / RigEventsMixin
Widgets == {"w1", "w2"}      \* widgets subscribing to the BlueprintUIModel
Attrs == {"pyMetaData", "other"}
None == "None"
RigNames == {"R"}            \* names of the 'transform' nodes that may be rigs
Transforms == {"t1", "t2", "t3", "t4"}   \* transform nodes of the scene
BuiltinActions == <<"SimpleConstrain", "action2", "action3">>   \* found in pulse/actions
WindowClasses == {"ActionTreeWindow", "DesignViewWindow"}   \* subclasses of PulseWindow
UI == "ui"                   \* the BlueprintUIModel instance
BLUEPRINT_NODENAME == "A"    \* node name of the default BlueprintUIModel

NoNode == [name |-> None, id |-> 0]
NoTransform == [exists |-> FALSE, id |-> 0, isRig |-> FALSE]

VARIABLES
    exists,                \* cmds.objExists per node name
    gen,                   \* creations so far per node name
    isBlueprint,           \* does the current node of the name carry Blueprint meta data
    xform,                 \* the 'transform' nodes that may be rigs: exists, id, isRig
    life,                  \* BlueprintLifecycleEvents.INSTANCE
    rig,                   \* RigLifecycleEvents.INSTANCE
    INSTANCES,             \* BlueprintChangeEvents.INSTANCES (dict: name -> dispatcher)
    maya,                  \* Maya's registry of installed MMessage callbacks
    deferred,              \* evalDeferred queue
    subscribeToBlueprint,  \* BlueprintEventsMixin.subscribeToBlueprint per object
    ui,                    \* the BlueprintUIModel (constructed or not, blueprint, subscribers)
    last,                  \* the operation that produced this state
    log                    \* what the last operation did (calls, callbacks added and removed)

\* the state of views/core.py's buttonCommand
VARIABLES
    undoLog,               \* the cmds.undoInfo calls made so far
    wrapper,               \* the running wrapper(): where it is and what is being raised
    results                \* how each finished wrapper() call ended

\* the state of views/core.py's PulseWindow classes
VARIABLES
    uiElements,            \* Maya's workspace controls and windows, per window class
    created                \* instances constructed so far, per window class

\* the transform hierarchy that nodes.py works on
VARIABLES
    parentOf,              \* each transform's parent (None: child of the world)
    locked,                \* the transform whose attributes makeIdentity cannot change
    freeze                 \* the freeze...ForHierarchy call made last and how it ended
                           \* (odd: whether the number of calls so far is odd)

\* a SimpleConstrainAction
VARIABLES
    leader,                \* its leader attribute (None: unset)
    follower,              \* its follower attribute (None: unset)
    validated              \* the validate() call made last: what it saw, what it raised

\* the module pulse (__init__.py)
VARIABLES
    BUILTIN_ACTIONS_LOADED,  \* the module global
    registered,              \* the registerAction calls made so far, in order
    loadLog                  \* the loadBuiltinActions calls made so far: the flag each
                             \* found, the number of actions it registered, what it raised

loaderVars == <<BUILTIN_ACTIONS_LOADED, registered, loadLog>>

eventVars == <<exists, gen, isBlueprint, xform, life, rig, INSTANCES, maya, deferred,
               subscribeToBlueprint, ui, last, log>>

toolVars == <<undoLog, wrapper, results, uiElements, created, parentOf, locked, freeze,
              leader, follower, validated, loaderVars>>

vars == <<eventVars, toolVars>>

\* the node currently carrying a name
Node(n) == [name |-> n, id |-> gen[n]]
IsLive(node) == node.name \in Names /\ exists[node.name] /\ gen[node.name] = node.id

\* a bound method: two bound methods are equal when object and function are
H(o, fn) == [self |-> o, fn |-> fn]

SeqToSet(s) == {s[i] : i \in DOMAIN s}
Count(s, x) == Cardinality({i \in DOMAIN s : s[i] = x})
Min(a, b) == IF a < b THEN a ELSE b

\* ---- class Event(list) ----

appendUnique(ev, item) ==
    IF item \notin SeqToSet(ev) THEN Append(ev, item) ELSE ev

\* list.remove: drops the first occurrence
ListRemove(s, x) ==
    LET i == CHOOSE j \in DOMAIN s : s[j] = x /\ \A k \in 1..(j-1) : s[k] # x
    IN  SubSeq(s, 1, i-1) \o SubSeq(s, i+1, Len(s))

RECURSIVE removeAll(_, _)
removeAll(ev, item) ==
    IF item \in SeqToSet(ev) THEN removeAll(ListRemove(ev, item), item) ELSE ev

\* ---- the world the handlers act on ----
\* W is a record of the mutable program state plus the log of the running operation:
\*   life, rig, INSTANCES, maya, deferred, sub (subscribeToBlueprint), ui, log

\*   calls   : the callables invoked by Event.__call__, with their argument
\*   events  : the Events that were called, as the list they held and the argument
\*   hooks   : the overridable mixin hooks that were reached
\*   added   : the _addMayaCallbacks invocations, removed: the removeCallback calls
\*   signals : the Qt signals emitted
\*   loads   : the number of BlueprintUIModel.load() calls
\*   ret, exc: the value returned and the exception that escaped
\*   unregistered : the dispatchers whose callbacks _unregisterMayaCallbacks removed
\*   dropped : the names cleanupSharedInstances deleted from INSTANCES
EmptyLog == [calls |-> <<>>, events |-> <<>>, hooks |-> <<>>, added |-> <<>>,
             removed |-> <<>>, unregistered |-> <<>>, dropped |-> {},
             signals |-> <<>>, loads |-> 0, ret |-> None, exc |-> None]

LifeKey == [cls |-> "BlueprintLifecycleEvents", name |-> None]
RigKey == [cls |-> "RigLifecycleEvents", name |-> None]
ChangeKey(n) == [cls |-> "BlueprintChangeEvents", name |-> n]

Get(W, k) ==
    IF k.cls = "BlueprintLifecycleEvents" THEN W.life
    ELSE IF k.cls = "RigLifecycleEvents" THEN W.rig
    ELSE W.INSTANCES[k.name]

Put(W, k, d) ==
    IF k.cls = "BlueprintLifecycleEvents" THEN [W EXCEPT !.life = d]
    ELSE IF k.cls = "RigLifecycleEvents" THEN [W EXCEPT !.rig = d]
    ELSE [W EXCEPT !.INSTANCES = [n \in DOMAIN W.INSTANCES |->
                                     IF n = k.name THEN d ELSE W.INSTANCES[n]]]

\* ---- class MayaCallbackEvents ----

\* MayaCallbackEvents.__init__ : the fields every dispatcher has.
\* addCount and lastIDs are history: the number of _addMayaCallbacks calls since
\* the last unregistration (counted up to 2) and the IDs the last one returned.
\* uid tells apart the successive dispatcher objects made for one node name.
MayaCallbackEvents ==
    [areMayaCallbacksRegistered |-> FALSE, callbackIDs |-> <<>>, subscribers |-> <<>>,
     addCount |-> 0, lastIDs |-> <<>>, uid |-> 0]

\* api.MDGMessage.addNodeAddedCallback and friends: install one callback.  Maya's
\* callback IDs are opaque; the ID here names the dispatcher object that asked
\* and the kind of callback, which tells all installed callbacks apart.
AddCallback(W, k, kind, node) ==
    LET d == Get(W, k)
        id == [cls |-> k.cls, name |-> k.name, uid |-> d.uid, kind |-> kind]
    IN  [W |-> [W EXCEPT !.maya = @ \cup {[id |-> id, owner |-> k, uid |-> d.uid,
                                           kind |-> kind, node |-> node]}],
         id |-> id]

\* _addMayaCallbacks as overridden by the three dispatcher classes; returns the
\* new world and the IDs
_addMayaCallbacks(W, k) ==
    LET r == IF k.cls = "BlueprintChangeEvents"
             THEN \* meta.getMObject(name) is None for a missing node
                  IF ~exists[k.name] THEN [W |-> W, ids |-> <<>>]
                  ELSE LET a == AddCallback(W, k, "attributeChanged", Node(k.name))
                       IN  [W |-> a.W, ids |-> <<a.id>>]
             ELSE LET a == AddCallback(W, k, "nodeAdded", NoNode)
                      b == AddCallback(a.W, k, "nodeRemoved", NoNode)
                  IN  [W |-> b.W, ids |-> <<a.id, b.id>>]
        d == Get(r.W, k)
        W1 == Put(r.W, k, [d EXCEPT !.addCount = Min(@ + 1, 2), !.lastIDs = r.ids])
    IN  [W |-> [W1 EXCEPT !.log.added = Append(@, [owner |-> k, ids |-> r.ids])],
         ids |-> r.ids]

_registerMayaCallbacksAlways(W, k) ==
    LET d == Get(W, k)
        r == _addMayaCallbacks(Put(W, k, [d EXCEPT !.areMayaCallbacksRegistered = TRUE]), k)
    IN  Put(r.W, k, [Get(r.W, k) EXCEPT !.callbackIDs = r.ids])

_registerMayaCallbacks(W, k) ==
    LET d == Get(W, k)
    IN  IF ~d.areMayaCallbacksRegistered
        THEN LET r == _addMayaCallbacks(
                          Put(W, k, [d EXCEPT !.areMayaCallbacksRegistered = TRUE]), k)
             IN  Put(r.W, k, [Get(r.W, k) EXCEPT !.callbackIDs = r.ids])
        ELSE W

\* api.MMessage.removeCallback
removeCallback(W, cbId) ==
    [W EXCEPT !.maya = {c \in @ : c.id # cbId},
              !.log.removed = Append(@, cbId)]

RECURSIVE RemoveCallbacks(_, _)
RemoveCallbacks(W, ids) ==
    IF ids = <<>> THEN W
    ELSE RemoveCallbacks(removeCallback(W, Head(ids)), Tail(ids))

_unregisterMayaCallbacksNoRemove(W, k) ==
    LET d == Get(W, k)
    IN  IF d.areMayaCallbacksRegistered
        THEN [Put(W, k, [d EXCEPT !.areMayaCallbacksRegistered = FALSE,
                                  !.callbackIDs = <<>>, !.addCount = 0])
                EXCEPT !.log.unregistered = Append(@, k)]
        ELSE W

_unregisterMayaCallbacks(W, k) ==
    LET d == Get(W, k)
    IN  IF d.areMayaCallbacksRegistered
        THEN LET W1 == RemoveCallbacks(
                           Put(W, k, [d EXCEPT !.areMayaCallbacksRegistered = FALSE]),
                           d.callbackIDs)
                 W2 == Put(W1, k, [Get(W1, k) EXCEPT !.callbackIDs = <<>>, !.addCount = 0])
             IN  [W2 EXCEPT !.log.unregistered = Append(@, k)]
        ELSE W

notifySubscriberAdded(W, k, subscriber) ==
    LET d == Get(W, k)
        W1 == IF subscriber \notin SeqToSet(d.subscribers)
              THEN Put(W, k, [d EXCEPT !.subscribers = Append(@, subscriber)])
              ELSE W
    IN  IF Get(W1, k).subscribers # <<>> THEN _registerMayaCallbacks(W1, k) ELSE W1

notifySubscriberRemoved(W, k, subscriber) ==
    LET d == Get(W, k)
        W1 == IF subscriber \in SeqToSet(d.subscribers)
              THEN Put(W, k, [d EXCEPT !.subscribers = ListRemove(@, subscriber)])
              ELSE W
    IN  IF Get(W1, k).subscribers = <<>> THEN _unregisterMayaCallbacks(W1, k) ELSE W1

\* ---- BlueprintLifecycleEvents / RigLifecycleEvents / BlueprintChangeEvents ----

\* BlueprintLifecycleEvents.__init__
BlueprintLifecycleEvents ==
    [f \in DOMAIN MayaCallbackEvents \cup {"onBlueprintCreated", "onBlueprintDeleted"} |->
        IF f \in DOMAIN MayaCallbackEvents THEN MayaCallbackEvents[f] ELSE <<>>]

\* RigLifecycleEvents.__init__
RigLifecycleEvents ==
    [f \in DOMAIN MayaCallbackEvents \cup {"onRigCreated", "onRigDeleted"} |->
        IF f \in DOMAIN MayaCallbackEvents THEN MayaCallbackEvents[f] ELSE <<>>]

\* BlueprintChangeEvents.__init__(blueprintNodeName)
BlueprintChangeEvents(blueprintNodeName) ==
    [MayaCallbackEvents EXCEPT !.uid = gen[blueprintNodeName]] @@
    [blueprintNodeName |-> blueprintNodeName, onBlueprintChanged |-> <<>>]

\* BlueprintChangeEvents.cleanupSharedInstances: keys() is a copy of the key list,
\* so every name is visited and every name without a node is deleted
cleanupSharedInstances(W) ==
    [W EXCEPT !.INSTANCES = [n \in {m \in DOMAIN @ : exists[m]} |-> @[n]],
              !.log.dropped = @ \cup {m \in DOMAIN W.INSTANCES : ~exists[m]}]

\* BlueprintChangeEvents.getShared: the new world and whether an instance is
\* returned (it is W.INSTANCES[blueprintNodeName] then)
getSharedNoCleanup(W0, blueprintNodeName) ==
    IF ~exists[blueprintNodeName] THEN [W |-> W0, found |-> FALSE]
    ELSE IF blueprintNodeName \notin DOMAIN W0.INSTANCES
    THEN [W |-> [W0 EXCEPT !.INSTANCES =
                    @ @@ (blueprintNodeName :> BlueprintChangeEvents(blueprintNodeName))],
          found |-> TRUE]
    ELSE [W |-> W0, found |-> TRUE]

getShared(W0, blueprintNodeName) ==
    LET W == cleanupSharedInstances(W0)
    IN  IF ~exists[blueprintNodeName] THEN [W |-> W, found |-> FALSE]
        ELSE IF blueprintNodeName \notin DOMAIN W.INSTANCES
        THEN [W |-> [W EXCEPT !.INSTANCES =
                        @ @@ (blueprintNodeName :> BlueprintChangeEvents(blueprintNodeName))],
              found |-> TRUE]
        ELSE [W |-> W, found |-> TRUE]

\* ---- class BlueprintEventsMixin ----

\* hasattr(self, 'subscribeToBlueprint') is false until first use; the attribute
\* is then created as None, which is how W.sub starts
_getSubscribedBlueprintName(W, self) == W.sub[self]

\* is the object entered in the change dispatcher of the name
IsSubscribedIn(W, self, n) ==
    /\ n \in DOMAIN W.INSTANCES
    /\ H(self, "onBlueprintChanged") \in SeqToSet(W.INSTANCES[n].onBlueprintChanged)
    /\ self \in SeqToSet(W.INSTANCES[n].subscribers)
    /\ W.INSTANCES[n].areMayaCallbacksRegistered

enableBlueprintEventsAppend(W, self) ==
    LET W1 == [W EXCEPT
                 !.life.onBlueprintCreated = Append(@, H(self, "_onBlueprintCreatedInternal")),
                 !.life.onBlueprintDeleted = Append(@, H(self, "onBlueprintDeleted"))]
    IN  notifySubscriberAdded(W1, LifeKey, self)

enableBlueprintEvents(W, self) ==
    LET W1 == [W EXCEPT
                 !.life.onBlueprintCreated =
                     appendUnique(@, H(self, "_onBlueprintCreatedInternal")),
                 !.life.onBlueprintDeleted =
                     appendUnique(@, H(self, "onBlueprintDeleted"))]
    IN  notifySubscriberAdded(W1, LifeKey, self)

disableBlueprintEvents(W, self) ==
    LET W1 == [W EXCEPT
                 !.life.onBlueprintCreated =
                     removeAll(@, H(self, "_onBlueprintCreatedInternal")),
                 !.life.onBlueprintDeleted =
                     removeAll(@, H(self, "onBlueprintDeleted"))]
    IN  notifySubscriberRemoved(W1, LifeKey, self)

_subscribeToBlueprintChanges(W, self) ==
    IF _getSubscribedBlueprintName(W, self) # None
    THEN LET n == W.sub[self]
             r == getShared(W, n)
         IN  IF r.found
             THEN LET d == r.W.INSTANCES[n]
                      W1 == Put(r.W, ChangeKey(n),
                                [d EXCEPT !.onBlueprintChanged =
                                    appendUnique(@, H(self, "onBlueprintChanged"))])
                  IN  notifySubscriberAdded(W1, ChangeKey(n), self)
             ELSE r.W
    ELSE W

_unsubscribeToBlueprintChanges(W, self) ==
    IF _getSubscribedBlueprintName(W, self) # None
    THEN LET n == W.sub[self]
             r == getShared(W, n)
         IN  IF r.found
             THEN LET d == r.W.INSTANCES[n]
                      W1 == Put(r.W, ChangeKey(n),
                                [d EXCEPT !.onBlueprintChanged =
                                    removeAll(@, H(self, "onBlueprintChanged"))])
                  IN  notifySubscriberRemoved(W1, ChangeKey(n), self)
             ELSE r.W
    ELSE W

disableBlueprintChangeEvents(W, self) ==
    IF _getSubscribedBlueprintName(W, self) # None
    THEN [_unsubscribeToBlueprintChanges(W, self) EXCEPT !.sub[self] = None]
    ELSE W

enableBlueprintChangeEventsKeepOld(W, self, blueprintNodeName) ==
    IF _getSubscribedBlueprintName(W, self) # blueprintNodeName
    THEN _subscribeToBlueprintChanges([W EXCEPT !.sub[self] = blueprintNodeName], self)
    ELSE W

enableBlueprintChangeEvents(W, self, blueprintNodeName) ==
    IF _getSubscribedBlueprintName(W, self) # blueprintNodeName
    THEN LET W1 == disableBlueprintChangeEvents(W, self)
         IN  _subscribeToBlueprintChanges([W1 EXCEPT !.sub[self] = blueprintNodeName], self)
    ELSE W

\* the overridable hooks onBlueprintCreated / onBlueprintChanged / onBlueprintDeleted /
\* onRigCreated / onRigDeleted: 'pass'; the log keeps that they were reached and
\* whether the object was entered in the node's change dispatcher at that moment
Hook(W, self, fn, node) ==
    [W EXCEPT !.log.hooks = Append(@, [h |-> H(self, fn), arg |-> node,
                                       subscribed |-> IsSubscribedIn(W, self, node.name)])]

_onBlueprintCreatedInternalHookFirst(W, self, node) ==
    LET W1 == Hook(W, self, "onBlueprintCreated", node)
    IN  IF _getSubscribedBlueprintName(W1, self) = node.name
        THEN _subscribeToBlueprintChanges(W1, self) ELSE W1

_onBlueprintCreatedInternal(W, self, node) ==
    LET W1 == IF _getSubscribedBlueprintName(W, self) = node.name
              THEN _subscribeToBlueprintChanges(W, self) ELSE W
    IN  Hook(W1, self, "onBlueprintCreated", node)

\* ---- class RigEventsMixin ----

enableRigEvents(W, self) ==
    LET W1 == [W EXCEPT
                 !.rig.onRigCreated = appendUnique(@, H(self, "onRigCreated")),
                 !.rig.onRigDeleted = appendUnique(@, H(self, "onRigDeleted"))]
    IN  notifySubscriberAdded(W1, RigKey, self)

disableRigEvents(W, self) ==
    LET W1 == [W EXCEPT
                 !.rig.onRigCreated = removeAll(@, H(self, "onRigCreated")),
                 !.rig.onRigDeleted = removeAll(@, H(self, "onRigDeleted"))]
    IN  notifySubscriberRemoved(W1, RigKey, self)

\* ---- class BlueprintUIModel (views/core.py) ----
\* The model imports BlueprintLifecycleEvents and BlueprintChangeEvents from
\* pulse.core, which is not part of the sources at hand.  Its dispatchers are
\* taken to be the dispatchers above under the names the model uses:
\* addSubscriber / removeSubscriber for notifySubscriberAdded /
\* notifySubscriberRemoved, onBlueprintNodeChanged for the Event of the node's
\* change dispatcher.

\* pulse.core dispatcher: addSubscriber(subscriber)
addSubscriber(W, k, subscriber) == notifySubscriberAdded(W, k, subscriber)

\* pulse.core dispatcher: removeSubscriber(subscriber)
removeSubscriber(W, k, subscriber) == notifySubscriberRemoved(W, k, subscriber)

\* pulse.core BlueprintChangeEvents: onBlueprintNodeChanged.appendUnique(h) on the
\* dispatcher kept for the model's node
onBlueprintNodeChanged_appendUnique(W, h) ==
    Put(W, ChangeKey(BLUEPRINT_NODENAME),
        [W.INSTANCES[BLUEPRINT_NODENAME] EXCEPT
            !.onBlueprintChanged = appendUnique(@, h)])

\* the Blueprint objects the model and its tree model refer to (None: NoNode)
heldObjects(W) == {b.obj : b \in {W.ui.blueprint, W.ui.treeBlueprint} \ {NoNode}}

\* pulse.Blueprint.fromNode: a new Blueprint object with the data of the node of
\* that name.  obj is the identity of the object: a new object is none of the
\* objects referred to at that moment.
fromNode(W, n) ==
    [name |-> n, id |-> gen[n],
     obj |-> CHOOSE k \in 1..3 : k \notin heldObjects(W)
                                  /\ \A j \in 1..(k - 1) : j \in heldObjects(W)]

\* a is b, for two Blueprint objects or None
sameObject(a, b) ==
    IF a = NoNode \/ b = NoNode THEN a = NoNode /\ b = NoNode ELSE a.obj = b.obj

\* pulse.core.Blueprint.isBlueprintNode
isBlueprintNode(node) == IsLive(node) /\ isBlueprint[node.name]

\* the QtCore.Signal attributes that class BlueprintUIModel declares
Signals == {"blueprintCreated", "blueprintDeleted", "blueprintNodeChanged",
            "blueprintPropertyChanged"}

\* self.<signal>.emit(...): an attribute the class does not have raises AttributeError
Emit(W, signal) ==
    IF signal \in Signals
    THEN [W EXCEPT !.log.signals = Append(@, signal)]
    ELSE [W EXCEPT !.log.exc = "AttributeError"]

\* BuildItemTreeModel.setBlueprint
setBlueprint(W, newBlueprint) ==
    IF ~sameObject(W.ui.treeBlueprint, newBlueprint)
    THEN [W EXCEPT !.ui.treeBlueprint = newBlueprint,
                   !.log.signals = Append(@, "modelReset")]
    ELSE W

\* BlueprintUIModel.__init__(BLUEPRINT_NODENAME), as getDefaultModel makes it
BlueprintUIModel__init__(W) ==
    LET blueprint == IF exists[BLUEPRINT_NODENAME] THEN fromNode(W, BLUEPRINT_NODENAME)
                     ELSE NoNode
    IN  [W EXCEPT !.ui = [constructed |-> TRUE, blueprint |-> blueprint,
                          treeBlueprint |-> blueprint, modelSubscribers |-> <<>>,
                          isSaving |-> FALSE],
                  !.life.onBlueprintCreated = appendUnique(@, H(UI, "_onBlueprintCreated")),
                  !.life.onBlueprintDeleted = appendUnique(@, H(UI, "_onBlueprintDeleted"))]

_setBlueprint(W, newBlueprint) ==
    LET W1 == [W EXCEPT !.ui.blueprint = newBlueprint]
        W2 == setBlueprint(W1, W1.ui.blueprint)
    IN  Emit(W2, "rigNameChanged")

\* if subscriber not in self._modelSubscribers: self._modelSubscribers.append(subscriber)
appendSubscriber(W, subscriber) ==
    IF subscriber \notin SeqToSet(W.ui.modelSubscribers)
    THEN [W EXCEPT !.ui.modelSubscribers = Append(@, subscriber)]
    ELSE W

\* changeEvents = BlueprintChangeEvents.getShared(...);
\* if changeEvents: changeEvents.addSubscriber(self)
subscribeShared(r) ==
    IF r.found THEN addSubscriber(r.W, ChangeKey(BLUEPRINT_NODENAME), UI) ELSE r.W

\* if self._modelSubscribers: subscribe to the lifecycle and the change dispatcher
subscribeModel(W) ==
    IF W.ui.modelSubscribers # <<>>
    THEN subscribeShared(getShared(addSubscriber(W, LifeKey, UI), BLUEPRINT_NODENAME))
    ELSE W

syncWithNodeNever(W) == W

\* we may have missed events since last subscribed, so make sure
\* blueprint exists == node exists
syncWithNode(W) ==
    IF exists[BLUEPRINT_NODENAME]
    THEN IF W.ui.blueprint = NoNode
         THEN _setBlueprint(W, fromNode(W, BLUEPRINT_NODENAME)) ELSE W
    ELSE IF W.ui.blueprint # NoNode THEN _setBlueprint(W, NoNode) ELSE W

BlueprintUIModel_addSubscriberAppend(W, subscriber) ==
    syncWithNode(subscribeModel(
        [W EXCEPT !.ui.modelSubscribers = Append(@, subscriber)]))

\* BlueprintUIModel.addSubscriber
BlueprintUIModel_addSubscriber(W, subscriber) ==
    syncWithNode(subscribeModel(appendSubscriber(W, subscriber)))

\* if subscriber in self._modelSubscribers: self._modelSubscribers.remove(subscriber)
dropSubscriber(W, subscriber) ==
    IF subscriber \in SeqToSet(W.ui.modelSubscribers)
    THEN [W EXCEPT !.ui.modelSubscribers = ListRemove(@, subscriber)]
    ELSE W

\* changeEvents = BlueprintChangeEvents.getShared(...);
\* if changeEvents: changeEvents.removeSubscriber(self)
unsubscribeShared(r) ==
    IF r.found THEN removeSubscriber(r.W, ChangeKey(BLUEPRINT_NODENAME), UI) ELSE r.W

\* if not self._modelSubscribers: unsubscribe from both dispatchers
unsubscribeModel(W) ==
    IF W.ui.modelSubscribers = <<>>
    THEN unsubscribeShared(getShared(removeSubscriber(W, LifeKey, UI),
                                     BLUEPRINT_NODENAME))
    ELSE W

\* BlueprintUIModel.removeSubscriber
BlueprintUIModel_removeSubscriber(W, subscriber) ==
    unsubscribeModel(dropSubscriber(W, subscriber))

\* BlueprintUIModel.isReadOnly
isReadOnly(u) == u.blueprint = NoNode

\* if changeEvents: changeEvents.onBlueprintNodeChanged.appendUnique(
\* self._onBlueprintNodeChanged); changeEvents.addSubscriber(self)
withChangeEvents(r) ==
    IF r.found
    THEN addSubscriber(
             onBlueprintNodeChanged_appendUnique(r.W, H(UI, "_onBlueprintNodeChanged")),
             ChangeKey(BLUEPRINT_NODENAME), UI)
    ELSE r.W

\* BlueprintUIModel._subscribeToBlueprintNodeChanges
_subscribeToBlueprintNodeChanges(W) ==
    withChangeEvents(getShared(W, BLUEPRINT_NODENAME))

\* BlueprintUIModel._onBlueprintCreated
_onBlueprintCreated(W, node) ==
    IF node.name = BLUEPRINT_NODENAME
    THEN LET W1 == _setBlueprint(W, fromNode(W, BLUEPRINT_NODENAME))
         IN  IF W1.log.exc # None THEN W1
             ELSE Emit(_subscribeToBlueprintNodeChanges(W1), "blueprintCreated")
    ELSE W

\* BlueprintUIModel._onBlueprintDeleted
_onBlueprintDeleted(W, node) ==
    IF node.name = BLUEPRINT_NODENAME
    THEN LET W1 == _setBlueprint(W, NoNode)
         IN  IF W1.log.exc # None THEN W1
             ELSE Emit(cleanupSharedInstances(W1), "blueprintDeleted")
    ELSE W

\* Blueprint.loadFromNode of pulse.core: reads the node's data into the object,
\* which stays the object it was
loadFromNode(b, n) == [b EXCEPT !.name = n, !.id = gen[n]]

\* BlueprintUIModel.load.  The tree model sees the new data when it refers to
\* the object that was loaded.
load(W) ==
    LET W0 == [W EXCEPT !.log.loads = @ + 1]
    IN  IF exists[BLUEPRINT_NODENAME] /\ isBlueprintNode(Node(BLUEPRINT_NODENAME))
        THEN IF W0.ui.blueprint = NoNode
             THEN _setBlueprint(W0, fromNode(W0, BLUEPRINT_NODENAME))
             ELSE [W0 EXCEPT !.ui.blueprint = loadFromNode(@, BLUEPRINT_NODENAME),
                             !.ui.treeBlueprint =
                                 IF sameObject(@, W0.ui.blueprint)
                                 THEN loadFromNode(@, BLUEPRINT_NODENAME) ELSE @,
                             !.log.signals = Append(@, "modelReset")]
        ELSE _setBlueprint(W0, NoNode)

\* BlueprintUIModel._onBlueprintNodeChanged
_onBlueprintNodeChanged(W, node) ==
    IF ~W.ui.isSaving
    THEN LET W1 == load(W)
         IN  IF W1.log.exc # None THEN W1 ELSE Emit(W1, "blueprintNodeChanged")
    ELSE W

\* BlueprintUIModel._saveFinishedDeferred
_saveFinishedDeferred(W) == [W EXCEPT !.ui.isSaving = FALSE]

\* ---- Event.__call__ ----

\* calling one callable of an Event: the bound method decides what runs
Invoke(W, h, node) ==
    LET W0 == [W EXCEPT !.log.calls = Append(@, [h |-> h, arg |-> node])]
    IN  CASE h.fn = "_onBlueprintCreatedInternal" ->
                 _onBlueprintCreatedInternal(W0, h.self, node)
          [] h.fn = "_onBlueprintCreated" -> _onBlueprintCreated(W0, node)
          [] h.fn = "_onBlueprintDeleted" -> _onBlueprintDeleted(W0, node)
          [] h.fn = "_onBlueprintNodeChanged" -> _onBlueprintNodeChanged(W0, node)
          [] OTHER -> Hook(W0, h.self, h.fn, node)

RECURSIVE CallFrom(_, _, _, _)
CallFrom(W, ev, i, node) ==
    IF i > Len(ev) \/ W.log.exc # None THEN W
    ELSE CallFrom(Invoke(W, ev[i], node), ev, i + 1, node)

\* for func in self: func(*args, **kwargs).  No callable of this program changes
\* the Event it is called from, so the list is the one the call started with; an
\* exception leaves the loop.
Event__call__(W, ev, node) ==
    CallFrom([W EXCEPT !.log.events = Append(@, [ev |-> ev, arg |-> node])],
             ev, 1, node)

\* ---- the host: evalDeferred and the MMessage callbacks ----

\* cmds.evalDeferred: entries with evaluateNext run before the others, each
\* group in the order it was queued
evalDeferred(W, entry) ==
    LET q == W.deferred
        hi == SelectSeq(q, LAMBDA e : e.next)
        lo == SelectSeq(q, LAMBDA e : ~e.next)
    IN  [W EXCEPT !.deferred = IF entry.next THEN Append(hi, entry) \o lo
                               ELSE hi \o Append(lo, entry)]

_onNodeAddedImmediate(W, node) ==
    Event__call__(W, W.life.onBlueprintCreated, node)

\* BlueprintLifecycleEvents._onNodeAdded
_onNodeAdded(W, node) ==
    evalDeferred(W, [fn |-> "_onNodeAddedDeferred", node |-> node, next |-> TRUE])

\* BlueprintLifecycleEvents._onNodeAddedDeferred
_onNodeAddedDeferred(W, node) ==
    IF isBlueprintNode(node)
    THEN Event__call__(W, W.life.onBlueprintCreated, node)
    ELSE W

\* BlueprintLifecycleEvents._onNodeRemoved
_onNodeRemoved(W, node) ==
    IF isBlueprintNode(node)
    THEN Event__call__(W, W.life.onBlueprintDeleted, node)
    ELSE W

\* pulse.core.isRig(node): the node is there and carries Rig meta data
isRig(node) ==
    /\ node.name \in RigNames
    /\ xform[node.name].exists
    /\ xform[node.name].id = node.id
    /\ xform[node.name].isRig

\* RigLifecycleEvents._onNodeAdded
RigLifecycleEvents_onNodeAdded(W, node) ==
    evalDeferred(W, [fn |-> "RigLifecycleEvents._onNodeAddedDeferred",
                     node |-> node, next |-> TRUE])

\* RigLifecycleEvents._onNodeAddedDeferred
RigLifecycleEvents_onNodeAddedDeferred(W, node) ==
    IF isRig(node)
    THEN Event__call__(W, W.rig.onRigCreated, node)
    ELSE W

\* RigLifecycleEvents._onNodeRemoved
RigLifecycleEvents_onNodeRemoved(W, node) ==
    IF isRig(node)
    THEN Event__call__(W, W.rig.onRigDeleted, node)
    ELSE W

\* BlueprintChangeEvents._onBlueprintAttrChanged
_onBlueprintAttrChanged(W, n, attr, node) ==
    IF attr = "pyMetaData"
    THEN Event__call__(W, W.INSTANCES[n].onBlueprintChanged, node)
    ELSE W

\* the installed callbacks of a kind of one dispatcher class
Installed(W, kind, cls) == {c \in W.maya : c.kind = kind /\ c.owner.cls = cls}

\* the attribute-changed callbacks on a node
RECURSIVE FireAttrChanged(_, _, _, _)
FireAttrChanged(W, cs, attr, node) ==
    IF cs = {} THEN W
    ELSE LET c == CHOOSE x \in cs : TRUE
         IN  FireAttrChanged(_onBlueprintAttrChanged(W, c.owner.name, attr, node),
                             cs \ {c}, attr, node)

\* ---- state machine ----

World == [life |-> life, rig |-> rig, INSTANCES |-> INSTANCES, maya |-> maya,
          deferred |-> deferred, sub |-> subscribeToBlueprint, ui |-> ui,
          log |-> EmptyLog]

Op(op, self, name, attr) == [op |-> op, self |-> self, name |-> name, attr |-> attr]

\* no button command has run
Idle == [pc |-> "idle", exc |-> None]

ToolsInit ==
    /\ undoLog = <<>>
    /\ wrapper = Idle
    /\ results = <<>>
    /\ uiElements = [cls \in WindowClasses |-> {}]
    /\ created = [cls \in WindowClasses |-> 0]
    /\ parentOf = [t \in Transforms |-> None]
    /\ locked = None
    /\ freeze = [op |-> None, transform |-> None, exc |-> None, odd |-> FALSE]
    /\ leader = None
    /\ follower = None
    /\ validated = [called |-> FALSE, leader |-> None, follower |-> None, exc |-> None]
    /\ BUILTIN_ACTIONS_LOADED = FALSE
    /\ registered = <<>>
    /\ loadLog = <<>>

Commit(W, op) ==
    /\ UNCHANGED toolVars
    /\ life' = W.life
    /\ rig' = W.rig
    /\ INSTANCES' = W.INSTANCES
    /\ maya' = W.maya
    /\ deferred' = W.deferred
    /\ subscribeToBlueprint' = W.sub
    /\ ui' = W.ui
    /\ log' = W.log
    /\ last' = op

SceneUnchanged == UNCHANGED <<exists, gen, isBlueprint, xform>>

NoUI == [constructed |-> FALSE, blueprint |-> NoNode, treeBlueprint |-> NoNode,
         modelSubscribers |-> <<>>, isSaving |-> FALSE]

\* nothing has happened yet: an empty scene, the dispatchers as constructed,
\* no BlueprintUIModel
Init ==
    /\ exists = [n \in Names |-> FALSE]
    /\ gen = [n \in Names |-> 0]
    /\ isBlueprint = [n \in Names |-> FALSE]
    /\ xform = [n \in RigNames |-> NoTransform]
    /\ life = BlueprintLifecycleEvents
    /\ rig = RigLifecycleEvents
    /\ INSTANCES = [n \in {} |-> 0]
    /\ maya = {}
    /\ deferred = <<>>
    /\ subscribeToBlueprint = [o \in Objs |-> None]
    /\ ui = NoUI
    /\ last = Op("init", None, None, None)
    /\ log = EmptyLog
    /\ ToolsInit

\* -- operations on objects using the mixins --

EnableBlueprintEvents(o) ==
    /\ Commit(enableBlueprintEvents(World, o), Op("enableBlueprintEvents", o, None, None))
    /\ SceneUnchanged

DisableBlueprintEvents(o) ==
    /\ Commit(disableBlueprintEvents(World, o), Op("disableBlueprintEvents", o, None, None))
    /\ SceneUnchanged

EnableRigEvents(o) ==
    /\ Commit(enableRigEvents(World, o), Op("enableRigEvents", o, None, None))
    /\ SceneUnchanged

DisableRigEvents(o) ==
    /\ Commit(disableRigEvents(World, o), Op("disableRigEvents", o, None, None))
    /\ SceneUnchanged

EnableBlueprintChangeEvents(o, n) ==
    /\ Commit(enableBlueprintChangeEvents(World, o, n),
              Op("enableBlueprintChangeEvents", o, n, None))
    /\ SceneUnchanged

DisableBlueprintChangeEvents(o) ==
    /\ Commit(disableBlueprintChangeEvents(World, o),
              Op("disableBlueprintChangeEvents", o, None, None))
    /\ SceneUnchanged

\* BlueprintChangeEvents.getShared(n) called by any client
GetShared(n) ==
    /\ LET r == getShared(World, n)
       IN  Commit([r.W EXCEPT !.log.ret = IF r.found THEN n ELSE None],
                  Op("getShared", None, n, None))
    /\ SceneUnchanged

\* -- the scene --

\* a 'network' node is created (with or without Blueprint meta data); Maya calls
\* the installed node-added callbacks
CreateNode(n, b) ==
    /\ ~exists[n]
    /\ gen[n] < MaxGen
    /\ Len(deferred) < MaxDeferred
    /\ exists' = [exists EXCEPT ![n] = TRUE]
    /\ gen' = [gen EXCEPT ![n] = @ + 1]
    /\ isBlueprint' = [isBlueprint EXCEPT ![n] = b]
    /\ UNCHANGED xform
    /\ LET node == [name |-> n, id |-> gen[n] + 1]
           W == IF Installed(World, "nodeAdded", "BlueprintLifecycleEvents") # {}
                THEN _onNodeAdded(World, node) ELSE World
       IN  Commit(W, Op("createNode", None, n, None))

\* a node is deleted; Maya calls the installed node-removed callbacks while the
\* node can still be inspected
DeleteNode(n) ==
    /\ exists[n]
    /\ exists' = [exists EXCEPT ![n] = FALSE]
    /\ isBlueprint' = [isBlueprint EXCEPT ![n] = FALSE]
    /\ UNCHANGED <<gen, xform>>
    /\ LET W == IF Installed(World, "nodeRemoved", "BlueprintLifecycleEvents") # {}
                THEN _onNodeRemoved(World, Node(n)) ELSE World
       IN  Commit(W, Op("deleteNode", None, n, None))

\* an attribute of a node changes; Maya calls the attribute-changed callbacks
\* installed on that node
ChangeAttr(n, a) ==
    /\ exists[n]
    /\ LET cs == {c \in maya : c.kind = "attributeChanged" /\ c.node = Node(n)}
       IN  /\ cs # {}
           /\ Commit(FireAttrChanged(World, cs, a, Node(n)), Op("changeAttr", None, n, a))
    /\ SceneUnchanged

\* the host's idle tick runs the first deferred call
RunDeferred ==
    /\ deferred # <<>>
    /\ LET e == Head(deferred)
           W == [World EXCEPT !.deferred = Tail(deferred)]
       IN  Commit(CASE e.fn = "_saveFinishedDeferred" -> _saveFinishedDeferred(W)
                    [] e.fn = "RigLifecycleEvents._onNodeAddedDeferred" ->
                           RigLifecycleEvents_onNodeAddedDeferred(W, e.node)
                    [] OTHER -> _onNodeAddedDeferred(W, e.node),
                  Op("runDeferred", None, e.node.name, None))
    /\ SceneUnchanged

\* the operations of the objects O and of the scene with the node names N
NextOn(O, N) ==
    \/ \E o \in O : EnableBlueprintEvents(o)
    \/ \E o \in O : DisableBlueprintEvents(o)
    \/ \E o \in O, n \in N : EnableBlueprintChangeEvents(o, n)
    \/ \E o \in O : DisableBlueprintChangeEvents(o)
    \/ \E n \in N : GetShared(n)
    \/ \E n \in N, b \in BOOLEAN : CreateNode(n, b)
    \/ \E n \in N : DeleteNode(n)
    \/ \E n \in N, a \in Attrs : ChangeAttr(n, a)
    \/ RunDeferred

\* two objects and the Blueprint node
Next == NextOn(Objs, {BLUEPRINT_NODENAME})

Spec == Init /\ [][Next]_vars

\* the change events of one object and two node names
NextNames ==
    \/ \E n \in Names : EnableBlueprintChangeEvents("o1", n)
    \/ DisableBlueprintChangeEvents("o1")
    \/ \E n \in Names : GetShared(n)
    \/ \E n \in Names, b \in BOOLEAN : CreateNode(n, b)
    \/ \E n \in Names : DeleteNode(n)
    \/ \E n \in Names, a \in Attrs : ChangeAttr(n, a)

SpecNames == Init /\ [][NextNames]_vars

\* -- lifecycle subscriptions only, of both mixins --

NextLife == \E o \in Objs :
               \/ EnableBlueprintEvents(o)
               \/ DisableBlueprintEvents(o)
               \/ EnableRigEvents(o)
               \/ DisableRigEvents(o)

SpecLife == Init /\ [][NextLife]_vars

\* -- creation and deletion of Blueprint and Rig nodes, seen by one object --

\* the Blueprint meta data is written to a 'network' node that had none
SetBlueprintMetaData(n) ==
    /\ exists[n] /\ ~isBlueprint[n]
    /\ isBlueprint' = [isBlueprint EXCEPT ![n] = TRUE]
    /\ UNCHANGED <<exists, gen, xform>>
    /\ Commit(World, Op("setMetaData", None, n, None))

\* a 'transform' node is created (with or without Rig meta data); Maya calls
\* the installed node-added callbacks for transforms
CreateTransform(n, r) ==
    /\ ~xform[n].exists
    /\ xform[n].id < MaxGen
    /\ Len(deferred) < MaxDeferred
    /\ xform' = [xform EXCEPT ![n] = [exists |-> TRUE, id |-> @.id + 1, isRig |-> r]]
    /\ UNCHANGED <<exists, gen, isBlueprint>>
    /\ LET node == [name |-> n, id |-> xform[n].id + 1]
           W == IF Installed(World, "nodeAdded", "RigLifecycleEvents") # {}
                THEN RigLifecycleEvents_onNodeAdded(World, node) ELSE World
       IN  Commit(W, Op("createTransform", None, n, None))

\* the Rig meta data is written to a transform that had none
SetRigMetaData(n) ==
    /\ xform[n].exists /\ ~xform[n].isRig
    /\ xform' = [xform EXCEPT ![n].isRig = TRUE]
    /\ UNCHANGED <<exists, gen, isBlueprint>>
    /\ Commit(World, Op("setRigMetaData", None, n, None))

\* a transform is deleted; Maya calls the installed node-removed callbacks for
\* transforms while the node can still be inspected
DeleteTransform(n) ==
    /\ xform[n].exists
    /\ xform' = [xform EXCEPT ![n].exists = FALSE, ![n].isRig = FALSE]
    /\ UNCHANGED <<exists, gen, isBlueprint>>
    /\ LET node == [name |-> n, id |-> xform[n].id]
           W == IF Installed(World, "nodeRemoved", "RigLifecycleEvents") # {}
                THEN RigLifecycleEvents_onNodeRemoved(World, node) ELSE World
       IN  Commit(W, Op("deleteTransform", None, n, None))

NextDispatch ==
    \/ EnableBlueprintEvents("o1")
    \/ DisableBlueprintEvents("o1")
    \/ EnableRigEvents("o1")
    \/ DisableRigEvents("o1")
    \/ \E b \in BOOLEAN : CreateNode(BLUEPRINT_NODENAME, b)
    \/ SetBlueprintMetaData(BLUEPRINT_NODENAME)
    \/ DeleteNode(BLUEPRINT_NODENAME)
    \/ \E n \in RigNames, r \in BOOLEAN : CreateTransform(n, r)
    \/ \E n \in RigNames : SetRigMetaData(n)
    \/ \E n \in RigNames : DeleteTransform(n)
    \/ RunDeferred

SpecDispatch == Init /\ [][NextDispatch]_vars

\* -- the BlueprintUIModel of the Blueprint node and the widgets that use it --

\* the model is constructed in a scene that has the Blueprint node or has not
InitUI ==
    /\ \E e \in BOOLEAN :
          /\ exists = [n \in Names |-> e /\ n = BLUEPRINT_NODENAME]
          /\ gen = [n \in Names |-> IF e /\ n = BLUEPRINT_NODENAME THEN 1 ELSE 0]
          /\ isBlueprint = [n \in Names |-> e /\ n = BLUEPRINT_NODENAME]
    /\ xform = [n \in RigNames |-> NoTransform]
    /\ LET W == BlueprintUIModel__init__(
                    [life |-> BlueprintLifecycleEvents, rig |-> RigLifecycleEvents,
                     INSTANCES |-> [n \in {} |-> 0], maya |-> {}, deferred |-> <<>>,
                     sub |-> [o \in Objs |-> None], ui |-> NoUI, log |-> EmptyLog])
       IN  /\ life = W.life
           /\ rig = W.rig
           /\ INSTANCES = W.INSTANCES
           /\ maya = W.maya
           /\ deferred = W.deferred
           /\ subscribeToBlueprint = W.sub
           /\ ui = W.ui
           /\ log = W.log
    /\ last = Op("init", UI, BLUEPRINT_NODENAME, None)
    /\ ToolsInit

\* a widget is shown: model.addSubscriber(w)
UIAddSubscriber(w) ==
    /\ Commit(BlueprintUIModel_addSubscriber(World, w),
              Op("addSubscriber", UI, BLUEPRINT_NODENAME, w))
    /\ SceneUnchanged

\* a widget is hidden: model.removeSubscriber(w)
UIRemoveSubscriber(w) ==
    /\ Commit(BlueprintUIModel_removeSubscriber(World, w),
              Op("removeSubscriber", UI, BLUEPRINT_NODENAME, w))
    /\ SceneUnchanged

\* model.load() is called
Load ==
    /\ Commit(load(World), Op("load", UI, BLUEPRINT_NODENAME, None))
    /\ SceneUnchanged

NextUI ==
    \/ \E w \in Widgets : UIAddSubscriber(w)
    \/ \E w \in Widgets : UIRemoveSubscriber(w)
    \/ Load
    \/ \E n \in Names, b \in BOOLEAN : CreateNode(n, b)
    \/ \E n \in Names : DeleteNode(n)
    \/ \E a \in Attrs : ChangeAttr(BLUEPRINT_NODENAME, a)
    \/ RunDeferred

SpecUI == InitUI /\ [][NextUI]_vars

\* the model and its widgets, together with another object that listens to the
\* shared lifecycle dispatcher
NextShared ==
    \/ \E w \in Widgets : UIAddSubscriber(w)
    \/ \E w \in Widgets : UIRemoveSubscriber(w)
    \/ EnableBlueprintEvents("o1")
    \/ DisableBlueprintEvents("o1")
    \/ \E b \in BOOLEAN : CreateNode(BLUEPRINT_NODENAME, b)
    \/ DeleteNode(BLUEPRINT_NODENAME)
    \/ RunDeferred

SpecShared == InitUI /\ [][NextShared]_vars

\* -- BlueprintUIModel.save --

\* Blueprint.saveToNode(name) of pulse.core, for a node that is there: writes
\* the pyMetaData attribute of the node, which makes Maya call the
\* attribute-changed callbacks installed on it before the write returns; an
\* exception inside a callback stays with Maya
saveToNode(W, n) ==
    [FireAttrChanged(W, {c \in W.maya : c.kind = "attributeChanged" /\ c.node = Node(n)},
                     "pyMetaData", Node(n))
        EXCEPT !.log.exc = None]

\* BlueprintUIModel.save: without a blueprint self.blueprint.saveToNode is an
\* AttributeError, without the node saveToNode raises; the deferred call is
\* queued only when saveToNode returned
save(W) ==
    LET W1 == [W EXCEPT !.ui.isSaving = TRUE]
    IN  CASE W.ui.blueprint = NoNode -> [W1 EXCEPT !.log.exc = "AttributeError"]
          [] ~exists[BLUEPRINT_NODENAME] -> [W1 EXCEPT !.log.exc = "RuntimeError"]
          [] OTHER -> evalDeferred(saveToNode(W1, BLUEPRINT_NODENAME),
                                   [fn |-> "_saveFinishedDeferred", node |-> NoNode,
                                    next |-> FALSE])

\* model.save(): an item of the tree model changed, or the caller saves
Save ==
    /\ Len(deferred) < MaxDeferred
    /\ Commit(save(World), Op("save", UI, BLUEPRINT_NODENAME, None))
    /\ isBlueprint' = [isBlueprint EXCEPT ![BLUEPRINT_NODENAME] =
                          @ \/ (exists[BLUEPRINT_NODENAME] /\ ui.blueprint # NoNode)]
    /\ UNCHANGED <<exists, gen, xform>>

\* the model, its widgets, its node and its saves
NextSave ==
    \/ \E w \in Widgets : UIAddSubscriber(w)
    \/ \E w \in Widgets : UIRemoveSubscriber(w)
    \/ Load
    \/ \E b \in BOOLEAN : CreateNode(BLUEPRINT_NODENAME, b)
    \/ DeleteNode(BLUEPRINT_NODENAME)
    \/ \E a \in Attrs : ChangeAttr(BLUEPRINT_NODENAME, a)
    \/ RunDeferred
    \/ Save

SpecSave == InitUI /\ [][NextSave]_vars

\* -- loadBuiltinActions (__init__.py) --

\* loadActionsFromDirectory: registerAction for every (config, action) the loader
\* yields.  The search, an import or registerAction may raise when failAt
\* actions have been registered; failAt = Len(BuiltinActions) is a full load.
loadActionsFromDirectory(reg, failAt) ==
    [registered |-> reg \o SubSeq(BuiltinActions, 1, failAt),
     exc |-> IF failAt < Len(BuiltinActions) THEN "Exception" ELSE None]

loadBuiltinActionsFlagFirst(loaded, reg, failAt) ==
    IF ~loaded
    THEN LET r == loadActionsFromDirectory(reg, failAt)
         IN  [loaded |-> TRUE, registered |-> r.registered, exc |-> r.exc]
    ELSE [loaded |-> loaded, registered |-> reg, exc |-> None]

\* loadBuiltinActions: the flag is set after loadActionsFromDirectory returned
loadBuiltinActions(loaded, reg, failAt) ==
    IF ~loaded
    THEN LET r == loadActionsFromDirectory(reg, failAt)
         IN  [loaded |-> r.exc = None, registered |-> r.registered, exc |-> r.exc]
    ELSE [loaded |-> loaded, registered |-> reg, exc |-> None]

\* pulse.loadBuiltinActions() is called; the load fails somewhere or not at all
LoadBuiltinActions(failAt) ==
    /\ Len(loadLog) < MaxLoads
    /\ LET r == loadBuiltinActions(BUILTIN_ACTIONS_LOADED, registered, failAt)
       IN  /\ BUILTIN_ACTIONS_LOADED' = r.loaded
           /\ registered' = r.registered
           /\ loadLog' = Append(loadLog, [loaded |-> BUILTIN_ACTIONS_LOADED,
                                          added |-> Len(r.registered) - Len(registered),
                                          exc |-> r.exc])
    /\ UNCHANGED <<eventVars, undoLog, wrapper, results, uiElements, created,
                   parentOf, locked, freeze, leader, follower, validated>>

NextLoad == \E failAt \in 0..Len(BuiltinActions) : LoadBuiltinActions(failAt)

SpecLoad == Init /\ [][NextLoad]_vars

\* -- buttonCommand (views/core.py) --

\* how func(*args, **kwargs) can end: it returns, raises an Exception, or raises
\* something that is not an Exception (KeyboardInterrupt, SystemExit)
FuncOutcomes == {"returns", "Exception", "KeyboardInterrupt"}

\* how cmds.error(e) can end: Maya's raises RuntimeError; a host whose error
\* only reports returns
ErrorOutcomes == {"RuntimeError", "returns"}

\* wrapper(): cmds.undoInfo(openChunk=True), then the try block is entered
WrapperCall ==
    /\ wrapper.pc = "idle"
    /\ Len(results) < MaxCommands
    /\ undoLog' = Append(undoLog, "openChunk")
    /\ wrapper' = [pc |-> "try", exc |-> None]
    /\ UNCHANGED <<results, eventVars, uiElements, created, parentOf, locked, freeze, leader, follower, validated, loaderVars>>

\* try: func(*args, **kwargs)
WrapperFunc(o) ==
    /\ wrapper.pc = "try"
    /\ wrapper' = IF o = "returns" THEN [pc |-> "finally", exc |-> None]
                  ELSE IF o = "Exception" THEN [pc |-> "except", exc |-> o]
                  ELSE [pc |-> "finally", exc |-> o]
    /\ UNCHANGED <<undoLog, results, eventVars, uiElements, created, parentOf, locked, freeze, leader, follower, validated, loaderVars>>

\* except Exception as e: cmds.error(e)
WrapperExcept(r) ==
    /\ wrapper.pc = "except"
    /\ wrapper' = [pc |-> "finally", exc |-> IF r = "returns" THEN None ELSE r]
    /\ UNCHANGED <<undoLog, results, eventVars, uiElements, created, parentOf, locked, freeze, leader, follower, validated, loaderVars>>

wrapperFinallyOnReturn(ulog, exc) ==
    IF exc = None THEN Append(ulog, "closeChunk") ELSE ulog

\* finally: cmds.undoInfo(closeChunk=True), whatever is being raised
wrapperFinally(ulog, exc) == Append(ulog, "closeChunk")

\* the finally block runs and wrapper() returns or lets the exception out
WrapperFinally ==
    /\ wrapper.pc = "finally"
    /\ undoLog' = wrapperFinally(undoLog, wrapper.exc)
    /\ results' = Append(results, wrapper.exc)
    /\ wrapper' = Idle
    /\ UNCHANGED <<eventVars, uiElements, created, parentOf, locked, freeze, leader, follower, validated, loaderVars>>

NextCommand ==
    \/ WrapperCall
    \/ \E o \in FuncOutcomes : WrapperFunc(o)
    \/ \E r \in ErrorOutcomes : WrapperExcept(r)
    \/ WrapperFinally

SpecCommand == Init /\ [][NextCommand]_vars

\* -- PulseWindow (views/core.py) --
\* A UI element of a window class is a workspace control named
\* OBJECT_NAME + 'WorkspaceControl' or a window named OBJECT_NAME; id tells the
\* instances of the class apart, visible is false for a closed control that
\* Maya retained.

\* cmds.workspaceControl(cls.getWorkspaceControlName(), q=True, ex=True)
workspaceControlExists(E) == \E x \in E : x.kind = "workspaceControl"

\* cmds.window(cls.OBJECT_NAME, q=True, ex=True)
windowExists(E) == \E x \in E : x.kind = "window"

\* cmds.workspaceControl(name, e=True, close=True): Maya deletes a closed
\* control or retains it hidden
closeWorkspaceControl(E, retain) ==
    IF retain
    THEN {IF x.kind = "workspaceControl" THEN [x EXCEPT !.visible = FALSE] ELSE x : x \in E}
    ELSE {x \in E : x.kind # "workspaceControl"}

\* cmds.deleteUI(name, control=True) / cmds.deleteUI(name, window=True)
deleteUI(E, kind) == {x \in E : x.kind # kind}

deleteInstancesCloseOnly(E, retain) ==
    IF workspaceControlExists(E) THEN closeWorkspaceControl(E, retain) ELSE E

\* PulseWindow.deleteInstances, on the UI elements of the class
deleteInstances(E, retain) ==
    LET E1 == IF workspaceControlExists(E) THEN closeWorkspaceControl(E, retain) ELSE E
        E2 == IF workspaceControlExists(E1) THEN deleteUI(E1, "workspaceControl") ELSE E1
    IN  IF windowExists(E2) THEN deleteUI(E2, "window") ELSE E2

\* PulseWindow.createAndShow: show() puts the new window in a workspace control
\* where the host docks it and leaves it a plain window where it does not
createAndShow(E, id, retain, kind) ==
    deleteInstances(E, retain) \cup {[id |-> id, kind |-> kind, visible |-> TRUE]}

CreateAndShow(cls) ==
    /\ created[cls] < MaxShows
    /\ \E retain \in BOOLEAN, kind \in {"workspaceControl", "window"} :
          uiElements' = [uiElements EXCEPT
                            ![cls] = createAndShow(@, created[cls] + 1, retain, kind)]
    /\ created' = [created EXCEPT ![cls] = @ + 1]
    /\ UNCHANGED <<eventVars, undoLog, wrapper, results, parentOf, locked, freeze, leader, follower, validated, loaderVars>>

\* the user closes the window of a class: Maya deletes it or retains a hidden
\* workspace control
UserClose(cls) ==
    /\ \E x \in uiElements[cls] : x.visible
    /\ \E retain \in BOOLEAN :
          uiElements' = [uiElements EXCEPT
                            ![cls] = deleteUI(closeWorkspaceControl(@, retain), "window")]
    /\ UNCHANGED <<eventVars, undoLog, wrapper, results, created, parentOf, locked, freeze, leader, follower, validated, loaderVars>>

NextWindow ==
    \/ \E cls \in WindowClasses : CreateAndShow(cls)
    \/ \E cls \in WindowClasses : UserClose(cls)

SpecWindow == Init /\ [][NextWindow]_vars

\* -- transform parenting (nodes.py) --
\* The functions take the parent relation P and give the new one.  The order in
\* which Maya lists children and descendants is left open: any one order.

RECURSIVE SetToSeq(_)
SetToSeq(S) ==
    IF S = {} THEN <<>>
    ELSE LET x == CHOOSE y \in S : TRUE IN <<x>> \o SetToSeq(S \ {x})

\* getAllParents(n): the ancestors of a node
RECURSIVE getAllParents(_, _)
getAllParents(P, n) ==
    IF P[n] = None THEN {} ELSE {P[n]} \cup getAllParents(P, P[n])

\* t.getChildren(type='transform')
getChildren(P, t) == {c \in Transforms : P[c] = t}

\* transform.listRelatives(ad=True, type='transform')
listRelatives(P, t) == {c \in Transforms : t \in getAllParents(P, c)}

getTransformHierarchyShallow(P, transform, includeParent) ==
    (IF includeParent THEN << <<P[transform], <<transform>> >> >> ELSE <<>>)
    \o (IF getChildren(P, transform) # {}
        THEN << <<transform, SetToSeq(getChildren(P, transform))>> >> ELSE <<>>)

\* getTransformHierarchy: (parent, [children]) for the transform and every
\* descendant that has children
getTransformHierarchy(P, transform, includeParent) ==
    LET ts == <<transform>> \o SetToSeq(listRelatives(P, transform))
        withChildren == SelectSeq(ts, LAMBDA t : getChildren(P, t) # {})
    IN  (IF includeParent THEN << <<P[transform], <<transform>> >> >> ELSE <<>>)
        \o [i \in DOMAIN withChildren |->
               <<withChildren[i], SetToSeq(getChildren(P, withChildren[i]))>>]

\* pm.parent(*children, parent)
pmParent(P, children, parent) ==
    [t \in Transforms |-> IF t \in SeqToSet(children) THEN parent ELSE P[t]]

\* getParentNodes: the nodes of the list that have no ancestor in the list
getParentNodes(P, nodes) ==
    SelectSeq(nodes, LAMBDA n : getAllParents(P, n) \cap SeqToSet(nodes) = {})

\* setParent(children, parent)
setParent(P, children0, parent) ==
    LET children == SelectSeq(children0, LAMBDA c : P[c] # parent)
        conflicts == IF parent = None THEN <<>>
                     ELSE SelectSeq(children, LAMBDA c : P[parent] = c)
        P1 == IF conflicts # <<>>
              THEN pmParent(P, <<parent>>, P[getParentNodes(P, conflicts)[1]])
              ELSE P
    IN  IF children = <<>> THEN P ELSE pmParent(P1, children, parent)

\* setTransformHierarchy(hierarchy)
RECURSIVE setTransformHierarchy(_, _)
setTransformHierarchy(P, hierarchy) ==
    IF hierarchy = <<>> THEN P
    ELSE setTransformHierarchy(setParent(P, Head(hierarchy)[2], Head(hierarchy)[1]),
                               Tail(hierarchy))

\* for c in children: c.setParent(None)
ParentToWorld(P, children) ==
    [t \in Transforms |-> IF t \in children THEN None ELSE P[t]]

\* freezeScalesForHierarchy / freezePivotsForHierarchy: the hierarchy is read,
\* the descendants go to the world, every node is frozen (pm.makeIdentity raises
\* for a node it cannot change, and nothing after it runs), the hierarchy is set
freezeForHierarchy(P, transform) ==
    LET hierarchy == getTransformHierarchy(P, transform, TRUE)
        children == listRelatives(P, transform)
        P1 == ParentToWorld(P, children)
    IN  IF locked \in {transform} \cup children
        THEN [P |-> P1, exc |-> "RuntimeError"]
        ELSE [P |-> setTransformHierarchy(P1, hierarchy), exc |-> None]

\* freezeScalesForHierarchy(transform)
freezeScalesForHierarchy(P, transform) == freezeForHierarchy(P, transform)

\* freezePivotsForHierarchy(transform)
freezePivotsForHierarchy(P, transform) == freezeForHierarchy(P, transform)

HierUnchanged == UNCHANGED <<eventVars, undoLog, wrapper, results, uiElements, created,
                              leader, follower, validated, loaderVars>>

\* the user parents a transform under another or under the world
Parent(c, newParent) ==
    /\ newParent # c
    /\ parentOf[c] # newParent
    /\ newParent # None => c \notin getAllParents(parentOf, newParent)
    /\ parentOf' = pmParent(parentOf, <<c>>, newParent)
    /\ UNCHANGED <<locked, freeze>>
    /\ HierUnchanged

\* the user locks the attributes of a transform, or unlocks them
Lock(t) ==
    /\ locked # t
    /\ locked' = t
    /\ UNCHANGED <<parentOf, freeze>>
    /\ HierUnchanged

FreezeScales(t) ==
    /\ LET r == freezeScalesForHierarchy(parentOf, t)
       IN  /\ parentOf' = r.P
           /\ freeze' = [op |-> "freezeScalesForHierarchy", transform |-> t, exc |-> r.exc,
                        odd |-> ~freeze.odd]
    /\ UNCHANGED locked
    /\ HierUnchanged

FreezePivots(t) ==
    /\ LET r == freezePivotsForHierarchy(parentOf, t)
       IN  /\ parentOf' = r.P
           /\ freeze' = [op |-> "freezePivotsForHierarchy", transform |-> t, exc |-> r.exc,
                        odd |-> ~freeze.odd]
    /\ UNCHANGED locked
    /\ HierUnchanged

NextHierarchy ==
    \/ \E c \in Transforms, q \in Transforms \cup {None} : Parent(c, q)
    \/ \E t \in Transforms \cup {None} : Lock(t)
    \/ \E t \in Transforms : FreezeScales(t)
    \/ \E t \in Transforms : FreezePivots(t)

SpecHierarchy == Init /\ [][NextHierarchy]_vars

\* -- SimpleConstrainAction (simple_constrain_pulseaction.py) --

\* the scene and everything else validate() has no business with
sceneVars == <<eventVars, undoLog, wrapper, results, uiElements, created,
               parentOf, locked, freeze, loaderVars>>

\* the truth value of an attribute value: None is false, a node is true
Truthy(v) == v # None

validateFollowerFirst(l, f) ==
    IF ~Truthy(f) THEN "follower must be set"
    ELSE IF ~Truthy(l) THEN "leader must be set"
    ELSE None

\* SimpleConstrainAction.validate: the message of the BuildActionError raised,
\* None when it returns
validate(l, f) ==
    IF ~Truthy(l) THEN "leader must be set"
    ELSE IF ~Truthy(f) THEN "follower must be set"
    ELSE None

\* the attributes of the action are edited
SetLeader(v) ==
    /\ leader # v
    /\ leader' = v
    /\ UNCHANGED <<follower, validated, sceneVars>>

SetFollower(v) ==
    /\ follower # v
    /\ follower' = v
    /\ UNCHANGED <<leader, validated, sceneVars>>

\* action.validate()
Validate ==
    /\ validated' = [called |-> TRUE, leader |-> leader, follower |-> follower,
                     exc |-> validate(leader, follower)]
    /\ UNCHANGED <<leader, follower, sceneVars>>

NextAction ==
    \/ \E v \in Transforms \cup {None} : SetLeader(v)
    \/ \E v \in Transforms \cup {None} : SetFollower(v)
    \/ Validate

SpecAction == Init /\ [][NextAction]_vars

\* ---- properties ----

\* the dispatchers that exist
Keys == {LifeKey, RigKey} \cup {ChangeKey(n) : n \in DOMAIN INSTANCES}
Dispatcher(k) ==
    IF k.cls = "BlueprintLifecycleEvents" THEN life
    ELSE IF k.cls = "RigLifecycleEvents" THEN rig
    ELSE INSTANCES[k.name]

\* the removeCallback calls of the last operation that passed an ID of dispatcher k
RemovedOf(k) ==
    SelectSeq(log.removed, LAMBDA id : id.cls = k.cls /\ id.name = k.name)

\* the object's onBlueprintChanged is entered in the dispatcher kept for the name
IsSubscribed(o, n) ==
    /\ n \in DOMAIN INSTANCES
    /\ H(o, "onBlueprintChanged") \in SeqToSet(INSTANCES[n].onBlueprintChanged)
    /\ o \in SeqToSet(INSTANCES[n].subscribers)
    /\ INSTANCES[n].areMayaCallbacksRegistered

\* ... and that dispatcher has its attribute-changed callback on the node that
\* carries the name now
HearsChanges(o, n) ==
    /\ IsSubscribed(o, n)
    /\ exists[n]
    /\ \E c \in maya : /\ c.kind = "attributeChanged"
                       /\ c.node = Node(n)
                       /\ c.owner = ChangeKey(n)
                       /\ c.uid = INSTANCES[n].uid
                       /\ c.id \in SeqToSet(INSTANCES[n].callbackIDs)

\* C1: calling an Event calls every callable of the list exactly once, in list
\* order, each with the argument the Event was called with: the calls made for
\* the Event call of an operation are the Event's list, entry by entry.
C1_EventCallsListInOrder ==
    /\ Len(log.events) <= 1
    /\ log.events = <<>> => log.calls = <<>>
    /\ log.events # <<>> =>
          log.calls = [i \in 1..Len(log.events[1].ev) |->
                          [h |-> log.events[1].ev[i], arg |-> log.events[1].arg]]

\* C2: Maya callbacks are never redundantly registered: no dispatcher has its
\* _addMayaCallbacks invoked more than once since its last unregistration (or
\* since it was made), however many subscribers are added and however often.
C2_NeverRedundantlyRegistered ==
    \A k \in Keys :
        /\ Dispatcher(k).addCount <= 1
        /\ Cardinality({i \in DOMAIN log.added : log.added[i].owner = k}) <= 1

\* two subscribers were added, one of them again, and the callbacks were added once
C2_Witness ==
    /\ last.op = "enableBlueprintEvents"
    /\ Len(life.subscribers) = 2
    /\ log.added = <<>>
    /\ life.addCount = 1

\* C3: Maya callbacks are properly removed: a dispatcher whose subscriber list is
\* empty is unregistered, holds no callback IDs and has none installed; the
\* operation that unregistered it passed every ID of its last _addMayaCallbacks
\* to removeCallback exactly once, in order; an operation that reached
\* _unregisterMayaCallbacks of an unregistered dispatcher removed nothing of it.
C3_ProperlyRemoved ==
    \A k \in Keys :
        LET d == Dispatcher(k)
            unreg == \E i \in DOMAIN log.unregistered : log.unregistered[i] = k
        IN  /\ d.subscribers = <<>> => ~d.areMayaCallbacksRegistered
            /\ ~d.areMayaCallbacksRegistered =>
                  /\ d.callbackIDs = <<>>
                  /\ \A c \in maya : ~(c.owner = k /\ c.uid = d.uid)
            /\ unreg => RemovedOf(k) = d.lastIDs /\ d.subscribers = <<>>
            /\ ~unreg => RemovedOf(k) = <<>>

\* the last subscriber left and both lifecycle callbacks were removed
C3_Witness ==
    /\ last.op = "disableBlueprintEvents"
    /\ life.subscribers = <<>>
    /\ Len(log.removed) = 2
    /\ log.removed = life.lastIDs

\* C4: after enableBlueprintEvents / enableRigEvents, however often it was called,
\* each lifecycle handler of the object is in its shared Event exactly once and
\* the object is in the subscriber list exactly once; after one disable none is
\* left, and the dispatcher is unregistered exactly if no object is subscribed.
C4_EnabledOnce ==
    LET o == last.self
        reg(d, k) == /\ d.areMayaCallbacksRegistered = (d.subscribers # <<>>)
                     /\ (\E c \in maya : c.owner = k) = (d.subscribers # <<>>)
    IN  /\ last.op = "enableBlueprintEvents" =>
              /\ Count(life.onBlueprintCreated, H(o, "_onBlueprintCreatedInternal")) = 1
              /\ Count(life.onBlueprintDeleted, H(o, "onBlueprintDeleted")) = 1
              /\ Count(life.subscribers, o) = 1
              /\ reg(life, LifeKey)
        /\ last.op = "disableBlueprintEvents" =>
              /\ Count(life.onBlueprintCreated, H(o, "_onBlueprintCreatedInternal")) = 0
              /\ Count(life.onBlueprintDeleted, H(o, "onBlueprintDeleted")) = 0
              /\ Count(life.subscribers, o) = 0
              /\ reg(life, LifeKey)
        /\ last.op = "enableRigEvents" =>
              /\ Count(rig.onRigCreated, H(o, "onRigCreated")) = 1
              /\ Count(rig.onRigDeleted, H(o, "onRigDeleted")) = 1
              /\ Count(rig.subscribers, o) = 1
              /\ reg(rig, RigKey)
        /\ last.op = "disableRigEvents" =>
              /\ Count(rig.onRigCreated, H(o, "onRigCreated")) = 0
              /\ Count(rig.onRigDeleted, H(o, "onRigDeleted")) = 0
              /\ Count(rig.subscribers, o) = 0
              /\ reg(rig, RigKey)

\* an object enabled its events a second time: the callbacks were registered
\* before, and it is the only subscriber
C4_Witness ==
    /\ last.op = "enableBlueprintEvents"
    /\ log.added = <<>>
    /\ life.subscribers = <<last.self>>

\* the nodes in whose change dispatcher the object has a handler or a subscriber entry
SubscribedNames(o) ==
    {n \in DOMAIN INSTANCES :
        \/ H(o, "onBlueprintChanged") \in SeqToSet(INSTANCES[n].onBlueprintChanged)
        \/ o \in SeqToSet(INSTANCES[n].subscribers)}

\* one step of the state machine, as C5 sees it
C5_Step ==
    \A o \in Objs :
        LET a == subscribeToBlueprint[o]
            core == <<life, INSTANCES, maya, deferred, subscribeToBlueprint>>
            did(op) == last'.op = op /\ last'.self = o
        IN  /\ SubscribedNames(o)' \subseteq {subscribeToBlueprint'[o]}
            /\ \A b \in Names :
                  (did("enableBlueprintChangeEvents") /\ last'.name = b) =>
                      /\ subscribeToBlueprint'[o] = b
                      /\ (a # b /\ exists[b]) => IsSubscribed(o, b)'
                      /\ a = b => UNCHANGED core
                      /\ (a # None /\ a # b /\ exists[a]) =>
                            /\ a \in DOMAIN INSTANCES'
                            /\ H(o, "onBlueprintChanged")
                                  \notin SeqToSet(INSTANCES'[a].onBlueprintChanged)
                            /\ o \notin SeqToSet(INSTANCES'[a].subscribers)
            /\ did("disableBlueprintChangeEvents") =>
                  /\ subscribeToBlueprint'[o] = None
                  /\ SubscribedNames(o)' = {}
                  /\ a = None => UNCHANGED core

\* C5: an object is subscribed to the change events of at most one Blueprint node,
\* the one it remembers: enableBlueprintChangeEvents(B) while subscribed to an
\* existing node A takes handler and subscriber entry out of A's dispatcher and
\* subscribes to B; with the subscribed name again it changes nothing;
\* disableBlueprintChangeEvents does nothing when not subscribed and otherwise
\* leaves the object subscribed to no node.
C5_AtMostOneNode == [][C5_Step]_vars

\* the object went from the existing node A to the existing node B
C5_Witness ==
    /\ last.op = "enableBlueprintChangeEvents"
    /\ last.name = "B"
    /\ IsSubscribed(last.self, "B")
    /\ exists["A"] /\ "A" \in DOMAIN INSTANCES
    /\ ChangeKey("A") \in SeqToSet(log.unregistered)

\* C6: after a Blueprint node was deleted and created again under the name an
\* object with lifecycle events is subscribed to, the deferred creation check
\* leaves the object subscribed to the new node (the dispatcher's
\* attribute-changed callback is on it), and every pyMetaData change of a node
\* whose changes an object hears reaches its onBlueprintChanged.
C6_ResubscribedAfterRecreation ==
    /\ \A i \in DOMAIN log.hooks :
          LET e == log.hooks[i]
          IN  (/\ e.h.fn = "onBlueprintCreated"
               /\ e.arg.id >= 2
               /\ subscribeToBlueprint[e.h.self] = e.arg.name)
              => HearsChanges(e.h.self, e.arg.name)
    /\ (last.op = "changeAttr" /\ last.attr = "pyMetaData") =>
          \A o \in Objs :
              HearsChanges(o, last.name) =>
                  \E i \in DOMAIN log.hooks :
                      log.hooks[i].h = H(o, "onBlueprintChanged")

\* enableBlueprintChangeEvents(n) for a missing node n adds no handler and no
\* Maya callback and remembers n
C7_Step ==
    \A o \in Objs, n \in Names :
        (/\ last'.op = "enableBlueprintChangeEvents"
         /\ last'.self = o /\ last'.name = n
         /\ ~exists[n]) =>
            /\ subscribeToBlueprint'[o] = n
            /\ log'.added = <<>>
            /\ maya' \subseteq maya
            /\ \A m \in DOMAIN INSTANCES' :
                  /\ m \in DOMAIN INSTANCES
                  /\ Count(INSTANCES'[m].onBlueprintChanged, H(o, "onBlueprintChanged"))
                        <= Count(INSTANCES[m].onBlueprintChanged, H(o, "onBlueprintChanged"))
                  /\ Count(INSTANCES'[m].subscribers, o) <= Count(INSTANCES[m].subscribers, o)

\* an onBlueprintCreated hook reached for the remembered name finds the object
\* subscribed
C7_State ==
    \A i \in DOMAIN log.hooks :
        LET e == log.hooks[i]
        IN  (/\ e.h.fn = "onBlueprintCreated"
             /\ subscribeToBlueprint[e.h.self] = e.arg.name)
            => e.subscribed

\* C7: enableBlueprintChangeEvents(N) for a missing node N registers no handler
\* and no Maya callback but remembers N; when a Blueprint node named N is
\* created and the object has lifecycle events enabled, the object is subscribed
\* to N's change events by the time its onBlueprintCreated hook is called.
C7_SubscribedBeforeHook == [](C7_State) /\ [][C7_Step]_vars

\* the creation check subscribed an object and installed the callback for it
C7_Witness ==
    /\ last.op = "runDeferred"
    /\ log.added # <<>>
    /\ \E i \in DOMAIN log.hooks :
          /\ log.hooks[i].h.fn = "onBlueprintCreated"
          /\ log.hooks[i].subscribed

\* the instance kept for a name stays the same object while the node is there
C8_Step ==
    \A n \in DOMAIN INSTANCES :
        (exists[n] /\ exists'[n] /\ gen'[n] = gen[n]) =>
            /\ n \in DOMAIN INSTANCES'
            /\ INSTANCES'[n].uid = INSTANCES[n].uid

C8_State ==
    last.op = "getShared" =>
        /\ (log.ret = None) = ~exists[last.name]
        /\ exists[last.name] =>
              /\ log.ret = last.name
              /\ last.name \in DOMAIN INSTANCES
              /\ INSTANCES[last.name].blueprintNodeName = last.name
        /\ \A m \in DOMAIN INSTANCES : exists[m]

\* C8: getShared(name) returns None when no node of that name exists; otherwise
\* a dispatcher whose blueprintNodeName is name, the same instance as long as the
\* node has existed continuously; every call first drops the instances of all
\* names that no longer exist.
C8_GetShared == [](C8_State) /\ [][C8_Step]_vars

\* a call for an existing node dropped the instance of a deleted one
C8_Witness ==
    /\ last.op = "getShared"
    /\ log.ret = last.name
    /\ log.dropped # {}
    /\ last.name \notin log.dropped


\* the callbacks installed for dispatcher k
CallbacksOf(k) == {c \in maya : c.owner = k}

\* dispatcher k has the model subscribed once and its callbacks installed
ModelEnabled(k) ==
    LET d == Dispatcher(k)
    IN  /\ d.areMayaCallbacksRegistered
        /\ Count(d.subscribers, UI) = 1
        /\ d.callbackIDs # <<>>
        /\ \A i \in DOMAIN d.callbackIDs :
              \E c \in CallbacksOf(k) :
                  /\ c.id = d.callbackIDs[i]
                  /\ k.cls = "BlueprintChangeEvents" => c.node = Node(k.name)

\* dispatcher k is unregistered and has no callback of its own installed
ModelDisabled(k) ==
    LET d == Dispatcher(k)
    IN  /\ ~d.areMayaCallbacksRegistered
        /\ UI \notin SeqToSet(d.subscribers)
        /\ d.callbackIDs = <<>>
        /\ \A c \in CallbacksOf(k) : c.uid # d.uid

C9_Step ==
    \A w \in Widgets :
        /\ (last'.op = "addSubscriber" /\ last'.attr = w) =>
              /\ Count(ui'.modelSubscribers, w) = 1
              /\ ui.modelSubscribers = <<>> =>
                    /\ ModelEnabled(LifeKey)'
                    /\ exists[BLUEPRINT_NODENAME] =>
                          /\ BLUEPRINT_NODENAME \in DOMAIN INSTANCES'
                          /\ ModelEnabled(ChangeKey(BLUEPRINT_NODENAME))'
        /\ (last'.op = "removeSubscriber" /\ last'.attr = w) =>
              /\ w \notin SeqToSet(ui'.modelSubscribers)
              /\ ui'.modelSubscribers = <<>> =>
                    /\ ModelDisabled(LifeKey)'
                    /\ (/\ exists[BLUEPRINT_NODENAME]
                        /\ BLUEPRINT_NODENAME \in DOMAIN INSTANCES') =>
                          ModelDisabled(ChangeKey(BLUEPRINT_NODENAME))'
              /\ ui'.modelSubscribers # <<>> =>
                    /\ log'.removed = <<>>
                    /\ life' = life

C10_BlueprintIffNodeExists ==
    last.op = "addSubscriber" =>
        /\ log.exc = None =>
              (ui.blueprint # NoNode <=> exists[BLUEPRINT_NODENAME])
        /\ log.exc # None =>
              (ui.blueprint # NoNode <=> exists[BLUEPRINT_NODENAME])

\* addSubscriber returned for the first subscriber of a model that was built on
\* the node, after the node was deleted and created again unheard
C10_Witness ==
    /\ last.op = "addSubscriber"
    /\ log.exc = None
    /\ ui.modelSubscribers = <<last.attr>>
    /\ exists[BLUEPRINT_NODENAME]
    /\ gen[BLUEPRINT_NODENAME] = 2
    /\ ui.blueprint # NoNode
    /\ ui.blueprint.id = 1

\* the model's _onBlueprintNodeChanged is entered in the change dispatcher of
\* its node and the model is one of the dispatcher's subscribers
ModelHearsChanges ==
    /\ BLUEPRINT_NODENAME \in DOMAIN INSTANCES
    /\ H(UI, "_onBlueprintNodeChanged")
          \in SeqToSet(INSTANCES[BLUEPRINT_NODENAME].onBlueprintChanged)
    /\ UI \in SeqToSet(INSTANCES[BLUEPRINT_NODENAME].subscribers)

\* C11: a created event for the model's node name makes the blueprint non-None
\* (isReadOnly False), subscribes the model to the node's change events and
\* emits blueprintCreated; a deleted event for that name sets the blueprint to
\* None (isReadOnly True) and emits blueprintDeleted; created and deleted events
\* for any other node name leave the blueprint unchanged and emit nothing.
C11_Step ==
    \A i \in DOMAIN log'.calls :
        LET e == log'.calls[i]
        IN  /\ (e.h = H(UI, "_onBlueprintCreated") /\ e.arg.name = BLUEPRINT_NODENAME) =>
                  /\ ~isReadOnly(ui')
                  /\ ModelHearsChanges'
                  /\ "blueprintCreated" \in SeqToSet(log'.signals)
            /\ (e.h = H(UI, "_onBlueprintDeleted") /\ e.arg.name = BLUEPRINT_NODENAME) =>
                  /\ isReadOnly(ui')
                  /\ "blueprintDeleted" \in SeqToSet(log'.signals)
            /\ (e.h.self = UI /\ e.arg.name # BLUEPRINT_NODENAME) =>
                  /\ ui'.blueprint = ui.blueprint
                  /\ log'.signals = <<>>

C11_UpdatesAutomatically == [][C11_Step]_vars


\* C12: every call of the function buttonCommand returns opens exactly one undo
\* chunk before func runs and closes exactly one after, also when func raises
\* and also when reporting the error raises: the undoInfo calls alternate
\* open, close, one pair per finished call, and a chunk is open exactly while a
\* call is running.
C12_UndoChunksBalanced ==
    /\ \A i \in DOMAIN undoLog :
          undoLog[i] = IF i % 2 = 1 THEN "openChunk" ELSE "closeChunk"
    /\ Len(undoLog) = 2 * Len(results) + (IF wrapper.pc = "idle" THEN 0 ELSE 1)

\* a call whose func raised and whose error report raised has ended, after
\* another call, with every chunk closed
C12_Witness ==
    /\ wrapper.pc = "idle"
    /\ Len(results) = 2
    /\ results[2] = "RuntimeError"
    /\ undoLog = <<"openChunk", "closeChunk", "openChunk", "closeChunk">>


\* a createAndShow call leaves the instance it made, shown, and nothing else
C13_Step ==
    \A cls \in WindowClasses :
        created'[cls] # created[cls] =>
            \E kind \in {"workspaceControl", "window"} :
                uiElements'[cls] =
                    {[id |-> created'[cls], kind |-> kind, visible |-> TRUE]}

\* C13: after any sequence of createAndShow calls on a window class at most one
\* instance of that window (workspace control or plain window) exists, because
\* createAndShow deletes every existing instance before it creates and shows
\* the new one.
C13_OneInstance ==
    /\ [](\A cls \in WindowClasses : Cardinality(uiElements[cls]) <= 1)
    /\ [][C13_Step]_vars

\* the third instance made for a class is the only UI element of the class
C13_Witness ==
    \E cls \in WindowClasses :
        /\ created[cls] = 3
        /\ uiElements[cls] = {[id |-> 3, kind |-> "workspaceControl", visible |-> TRUE]}


\* a freeze call that returned left every transform with the parent it had
C14_Step ==
    (freeze' # freeze /\ freeze'.exc = None) => parentOf' = parentOf

\* setting the hierarchy read from t, after t's descendants went to the world,
\* gives the parent relation back
C14_Rebuilt ==
    \A t \in Transforms :
        setTransformHierarchy(ParentToWorld(parentOf, listRelatives(parentOf, t)),
                              getTransformHierarchy(parentOf, t, TRUE)) = parentOf

\* C14: after freezeScalesForHierarchy or freezePivotsForHierarchy returns,
\* every transform of the subtree and the root have the parent they had before;
\* setTransformHierarchy(getTransformHierarchy(t)) applied after all descendants
\* of t were parented to the world rebuilds the original subtree.
C14_HierarchyRestored == [](C14_Rebuilt) /\ [][C14_Step]_vars

\* a freeze returned for the top of a chain of three under a parent
C14_Witness ==
    /\ freeze.op = "freezePivotsForHierarchy"
    /\ freeze.exc = None
    /\ freeze.transform = "t2"
    /\ parentOf = [t \in Transforms |->
                      IF t = "t2" THEN "t1" ELSE IF t = "t3" THEN "t2"
                      ELSE IF t = "t4" THEN "t3" ELSE None]


\* what a validate() call raised, by the attributes it saw
C15_Raised ==
    validated.called =>
        /\ validated.leader = None => validated.exc = "leader must be set"
        /\ (validated.leader # None /\ validated.follower = None) =>
              validated.exc = "follower must be set"
        /\ (validated.leader # None /\ validated.follower # None) =>
              validated.exc = None

\* a validate() call changes nothing but the record of the call
C15_Step ==
    validated' # validated => UNCHANGED <<sceneVars, leader, follower>>

\* C15: validate raises BuildActionError("leader must be set") when leader is
\* unset, otherwise BuildActionError("follower must be set") when follower is
\* unset, and nothing when both are set; validate changes no scene state.
C15_Validate == [](C15_Raised) /\ [][C15_Step]_vars

\* validate() met a follower without a leader and complained about the leader
C15_Witness ==
    /\ validated.called
    /\ validated.leader = None
    /\ validated.follower = "t1"
    /\ validated.exc = "leader must be set"


\* a save() is in flight: its _saveFinishedDeferred is queued
SaveInFlight == \E i \in DOMAIN deferred : deferred[i].fn = "_saveFinishedDeferred"

\* C16: from save() until its _saveFinishedDeferred has run no change of the
\* node makes the model call load or emit blueprintNodeChanged; a change of the
\* pyMetaData of the model's node that arrives while the model has subscribers
\* and no save is in flight reloads the blueprint and emits
\* blueprintNodeChanged exactly once.
C16_Step ==
    /\ ((SaveInFlight \/ last'.op = "save") /\ last'.op # "load") =>
          /\ log'.loads = 0
          /\ "blueprintNodeChanged" \notin SeqToSet(log'.signals)
    /\ (/\ last'.op = "changeAttr" /\ last'.attr = "pyMetaData"
        /\ last'.name = BLUEPRINT_NODENAME
        /\ ui.modelSubscribers # <<>>
        /\ ~SaveInFlight) =>
          /\ log'.loads = 1
          /\ Count(log'.signals, "blueprintNodeChanged") = 1

C16_OwnSaveNeverReloads == [][C16_Step]_vars


\* the Event calls a dispatch of ev with the argument node consists of
Dispatched(ev, node) == <<[ev |-> ev, arg |-> node]>>

\* C17: the node-added callbacks of the lifecycle dispatchers call no Event and
\* no handler: each queues one deferred entry.  The deferred entry calls
\* onBlueprintCreated (onRigCreated) once if the node is a Blueprint (a Rig) at
\* that moment and calls nothing otherwise.  The node-removed callbacks call
\* onBlueprintDeleted (onRigDeleted) once, inside the callback, if the node is a
\* Blueprint (a Rig) at that moment and call nothing otherwise.  No other
\* operation calls these Events.
C17_Step ==
    LET lifeAdded == Installed(World, "nodeAdded", "BlueprintLifecycleEvents") # {}
        rigAdded == Installed(World, "nodeAdded", "RigLifecycleEvents") # {}
        lifeRemoved == Installed(World, "nodeRemoved", "BlueprintLifecycleEvents") # {}
        rigRemoved == Installed(World, "nodeRemoved", "RigLifecycleEvents") # {}
    IN  CASE last'.op = "createNode" ->
                 /\ log'.events = <<>> /\ log'.calls = <<>>
                 /\ Len(deferred') = Len(deferred) + (IF lifeAdded THEN 1 ELSE 0)
          [] last'.op = "createTransform" ->
                 /\ log'.events = <<>> /\ log'.calls = <<>>
                 /\ Len(deferred') = Len(deferred) + (IF rigAdded THEN 1 ELSE 0)
          [] last'.op = "runDeferred" ->
                 LET e == Head(deferred)
                 IN  /\ deferred' = Tail(deferred)
                     /\ e.fn = "_onNodeAddedDeferred" =>
                          log'.events = IF isBlueprintNode(e.node)
                                        THEN Dispatched(life.onBlueprintCreated, e.node)
                                        ELSE <<>>
                     /\ e.fn = "RigLifecycleEvents._onNodeAddedDeferred" =>
                          log'.events = IF isRig(e.node)
                                        THEN Dispatched(rig.onRigCreated, e.node)
                                        ELSE <<>>
          [] last'.op = "deleteNode" ->
                 log'.events = IF lifeRemoved /\ isBlueprint[last'.name]
                               THEN Dispatched(life.onBlueprintDeleted, Node(last'.name))
                               ELSE <<>>
          [] last'.op = "deleteTransform" ->
                 LET n == last'.name
                 IN  log'.events = IF rigRemoved /\ xform[n].isRig
                                   THEN Dispatched(rig.onRigDeleted,
                                                   [name |-> n, id |-> xform[n].id])
                                   ELSE <<>>
          [] OTHER -> log'.events = <<>>

C17_DeferredCreatedSynchronousDeleted == [][C17_Step]_vars

\* a deferred tick dispatched onBlueprintCreated or onRigCreated to the hook of
\* the object, for a node of a name that was created for the second time
C17_Witness ==
    /\ last.op = "runDeferred"
    /\ \E i \in DOMAIN log.hooks :
          log.hooks[i].h.fn \in {"onBlueprintCreated", "onRigCreated"}
             /\ log.hooks[i].arg.id = 2


\* a call of loadBuiltinActions that loaded every action and returned
Completed(c) == ~c.loaded /\ c.exc = None

\* C18: BUILTIN_ACTIONS_LOADED is True exactly when some call loaded every
\* built-in action and returned; at most one call does; every call after it
\* registers nothing and raises nothing; every call before it found the flag
\* False, so it ran the load again.
C18_LoadedOnce ==
    /\ BUILTIN_ACTIONS_LOADED <=> \E i \in DOMAIN loadLog : Completed(loadLog[i])
    /\ Cardinality({i \in DOMAIN loadLog : Completed(loadLog[i])}) <= 1
    /\ \A i \in DOMAIN loadLog :
          /\ Completed(loadLog[i]) =>
                /\ loadLog[i].added = Len(BuiltinActions)
                /\ \A j \in DOMAIN loadLog :
                      j > i => loadLog[j].loaded /\ loadLog[j].added = 0
                                  /\ loadLog[j].exc = None
          /\ loadLog[i].exc # None =>
                (i + 1 \in DOMAIN loadLog => ~loadLog[i + 1].loaded)
          /\ loadLog[i].loaded => \E j \in 1..(i - 1) : Completed(loadLog[j])

\* a load failed after it registered an action, the next call loaded everything,
\* and the call after that registered nothing
C18_Witness ==
    /\ Len(loadLog) >= 3
    /\ loadLog[1].exc # None /\ loadLog[1].added > 0
    /\ Completed(loadLog[2])
    /\ loadLog[3].loaded /\ loadLog[3].added = 0
    /\ BUILTIN_ACTIONS_LOADED

====
